---- MODULE Spec2Model ----
(***************************************************************************)
(* Model of inventory.py: an Ansible dynamic inventory generated from the  *)
(* outputs of `terraform output -json`.                                    *)
(*                                                                         *)
(* Python strings that the program takes apart (output names, addresses,   *)
(* host names) are sequences of one-character strings, so that            *)
(* str.replace, str.split, int() and the f-string formatting are computed  *)
(* character by character.  JSON values are tagged records [t, v].         *)
(***************************************************************************)
EXTENDS Integers, Sequences, FiniteSets, TLC

VARIABLES
    tf,           \* what `terraform output -json` yields in terraform_dir
    pc,           \* position of the process: "ready", "returned", "exited"
    args,         \* the parsed command line: [op, host]
    inventory,    \* self.inventory
    outputs,      \* the local `outputs` of build_inventory (last fetch)
    stdout,       \* documents printed on standard output, in order
    stderr,       \* diagnostics printed on standard error, in order
    exit_status,  \* <<>> while running, then <<0>> or <<1>>
    fetches,      \* number of times the external command was invoked
    calls,        \* number of output_list/output_host calls on this object
    run,          \* number of the process run in the shell session
    arg,          \* argument of a direct is_valid_ip call
    ret           \* its result: <<>> before the call, then <<TRUE>> or <<FALSE>>

vars == <<tf, pc, args, inventory, outputs, stdout, stderr, exit_status,
          fetches, calls, run, arg, ret>>

(***************************************************************************)
(* Bounds                                                                  *)
(***************************************************************************)
\* total number of scalar leaves in the outputs document
MaxLeaves == 4
\* number of "."-separated parts of an address candidate
MaxParts == 5
\* number of handler calls on one TerraformInventory object
MaxCalls == 2

(***************************************************************************)
(* JSON values                                                             *)
(***************************************************************************)
Str(s) == [t |-> "str", v |-> s]
List(l) == [t |-> "list", v |-> l]
Null == [t |-> "null", v |-> <<>>]
BoolTrue == [t |-> "bool", v |-> <<TRUE>>]
Int42 == [t |-> "int", v |-> <<"4", "2">>]
Dict == [t |-> "dict", v |-> <<>>]
EmptyObject == [k \in {} |-> ""]

IP_A == <<"1", ".", "1", ".", "1", ".", "1">>
IP_B == <<"2", ".", "2", ".", "2", ".", "2">>
HELLO == <<"h", "e", "l", "l", "o">>
X == <<"x">>

WEB_IP == <<"w", "e", "b", "_", "i", "p">>
WEB == <<"w", "e", "b">>
WEB_2_IP == <<"w", "e", "b", "_", "2", "_", "i", "p">>
HOST_WEB_2 == <<"w", "e", "b", "-", "2">>

Names == <<WEB_IP, WEB, WEB_2_IP>>
ScalarValues == {Str(IP_A), Str(IP_B), Str(HELLO), Null, BoolTrue, Int42, Dict}
ElemValues == {Str(IP_A), Str(IP_B), Str(X)}
\* a list whose element is not a string
NonStringLists == {List(<<Null>>)}
HostArgs == {WEB}

Range(s) == {s[i] : i \in 1..Len(s)}

Absent == [t |-> "absent", v |-> <<>>]

\* a scalar, the empty list and the one-element lists count as one leaf, a
\* longer list as its length
Weight(v) ==
    IF v.t = "absent" THEN 0
    ELSE IF v.t = "list" /\ Len(v.v) > 1 THEN Len(v.v) ELSE 1

\* what one output name can carry when w leaves are left: nothing (the output
\* is not declared) or a value of at most w leaves
Slot(w) ==
    {Absent} \cup
    (IF w < 1 THEN {}
     ELSE ScalarValues \cup NonStringLists
          \cup {List(l) : l \in UNION {[1..n -> ElemValues] : n \in 0..w}})

Reverse(s) == [i \in 1..Len(s) |-> s[Len(s) + 1 - i]]

\* the outputs document: the declared outputs, in key order
Declared(slots) ==
    LET present(o) == o.value.t # "absent"
    IN SelectSeq([i \in 1..Len(Names) |-> [name |-> Names[i], value |-> slots[i]]],
                 present)

FailureKinds == {"CalledProcessError", "JSONDecodeError", "Exception"}

(***************************************************************************)
(* Python built-ins used by the program                                    *)
(***************************************************************************)
Digits == <<"0", "1", "2", "3", "4", "5", "6", "7", "8", "9">>
IsDigit(c) == c \in Range(Digits)
DigitVal(c) == (CHOOSE i \in 1..Len(Digits) : Digits[i] = c) - 1

StartsWith(s, p) == Len(s) >= Len(p) /\ SubSeq(s, 1, Len(p)) = p

\* s.replace(old, new) for a non-empty old: left to right, non-overlapping
RECURSIVE PyReplace(_, _, _)
PyReplace(s, old, new) ==
    IF s = <<>> THEN <<>>
    ELSE IF StartsWith(s, old)
         THEN new \o PyReplace(SubSeq(s, Len(old) + 1, Len(s)), old, new)
         ELSE <<Head(s)>> \o PyReplace(Tail(s), old, new)

\* s.split(sep) for a one-character sep: always at least one part
RECURSIVE PySplitFrom(_, _, _)
PySplitFrom(s, sep, cur) ==
    IF s = <<>> THEN <<cur>>
    ELSE IF Head(s) = sep
         THEN <<cur>> \o PySplitFrom(Tail(s), sep, <<>>)
         ELSE PySplitFrom(Tail(s), sep, Append(cur, Head(s)))

PySplit(s, sep) == PySplitFrom(s, sep, <<>>)

\* str(n) for n >= 0
RECURSIVE PyStr(_)
PyStr(n) ==
    IF n < 10 THEN <<Digits[n + 1]>>
    ELSE PyStr(n \div 10) \o <<Digits[(n % 10) + 1]>>

RECURSIVE LStrip(_)
LStrip(s) == IF s # <<>> /\ Head(s) = " " THEN LStrip(Tail(s)) ELSE s
RECURSIVE RStrip(_)
RStrip(s) ==
    IF s # <<>> /\ s[Len(s)] = " " THEN RStrip(SubSeq(s, 1, Len(s) - 1)) ELSE s

RECURSIVE DigitsValue(_, _)
DigitsValue(s, acc) ==
    IF s = <<>> THEN acc
    ELSE IF Head(s) = "_" THEN DigitsValue(Tail(s), acc)
         ELSE DigitsValue(Tail(s), acc * 10 + DigitVal(Head(s)))

\* digit (["_"] digit)*
WellFormedDigits(s) ==
    /\ s # <<>>
    /\ \A i \in 1..Len(s) : IsDigit(s[i]) \/ s[i] = "_"
    /\ IsDigit(s[1]) /\ IsDigit(s[Len(s)])
    /\ \A i \in 1..(Len(s) - 1) : ~(s[i] = "_" /\ s[i + 1] = "_")

\* int(s) for a str s: surrounding whitespace, an optional sign, decimal
\* digits with single underscores between them; anything else is ValueError
PyInt(s) ==
    LET body == RStrip(LStrip(s))
        signed == body # <<>> /\ Head(body) \in {"+", "-"}
        digs == IF signed THEN Tail(body) ELSE body
    IN IF WellFormedDigits(digs)
       THEN [ok |-> TRUE,
             n |-> IF signed /\ Head(body) = "-"
                   THEN 0 - DigitsValue(digs, 0) ELSE DigitsValue(digs, 0)]
       ELSE [ok |-> FALSE, n |-> 0]

(***************************************************************************)
(* TerraformInventory                                                      *)
(***************************************************************************)
\* __init__
Skeleton ==
    [hostvars |-> EmptyObject,
     all_hosts |-> <<>>,
     children |-> <<"aws_instances">>,
     aws_hosts |-> <<>>]

\* all(0 <= int(part) <= 255 for part in parts), ValueError caught
RECURSIVE AllPartsInRange(_, _)
AllPartsInRange(parts, i) ==
    IF i > Len(parts) THEN TRUE
    ELSE LET r == PyInt(parts[i])
         IN IF ~r.ok THEN FALSE
            ELSE IF 0 <= r.n /\ r.n <= 255 THEN AllPartsInRange(parts, i + 1)
                 ELSE FALSE

is_valid_ip_strict(ip) ==
    IF ip.t # "str" THEN FALSE
    ELSE LET parts == PySplit(ip.v, ".")
         IN Len(parts) = 4
            /\ \A i \in 1..Len(parts) :
                 PyInt(parts[i]).ok /\ 0 <= PyInt(parts[i]).n /\ PyInt(parts[i]).n < 255

is_valid_ip(ip) ==
    IF ip.t # "str" THEN FALSE   \* AttributeError on .split
    ELSE LET parts == PySplit(ip.v, ".")
         IN Len(parts) = 4 /\ AllPartsInRange(parts, 1)

host_vars(ip) ==
    [ansible_host |-> ip,
     ansible_python_interpreter |-> "/usr/bin/python3",
     ansible_connection |-> "ssh"]

add_host_dedup(inv, hostname, ip) ==
    [inv EXCEPT
       !.all_hosts = IF hostname \in Range(@) THEN @ ELSE Append(@, hostname),
       !.aws_hosts = IF hostname \in Range(@) THEN @ ELSE Append(@, hostname),
       !.hostvars = [h \in (DOMAIN @) \cup {hostname} |->
                        IF h = hostname THEN host_vars(ip) ELSE @[h]]]

add_host_swapped(inv, hostname, ip) ==
    [inv EXCEPT
       !.all_hosts = Append(@, hostname),
       !.aws_hosts = Append(@, hostname),
       !.hostvars = [h \in (DOMAIN @) \cup {hostname} |->
                        IF h = hostname THEN host_vars(hostname) ELSE @[h]]]

add_host(inv, hostname, ip) ==
    [inv EXCEPT
       !.all_hosts = Append(@, hostname),
       !.aws_hosts = Append(@, hostname),
       !.hostvars = [h \in (DOMAIN @) \cup {hostname} |->
                        IF h = hostname THEN host_vars(ip) ELSE @[h]]]

\* output_name.replace('_ip', '').replace('_', '-')
base_name(output_name) ==
    PyReplace(PyReplace(output_name, <<"_", "i", "p">>, <<>>), <<"_">>, <<"-">>)

NumQualifying(value) ==
    Cardinality({j \in 1..Len(value) : is_valid_ip(value[j])})

list_hostname_by_qualifying(output_name, value, i) ==
    IF NumQualifying(value) > 1
    THEN base_name(output_name) \o <<"-">> \o PyStr(i + 1)
    ELSE base_name(output_name)

list_hostname_by_rank(output_name, value, i) ==
    IF Len(value) > 1
    THEN base_name(output_name) \o <<"-">>
           \o PyStr(Cardinality({j \in 1..(i + 1) : is_valid_ip(value[j])}))
    ELSE base_name(output_name)

\* f"{base_name}-{i + 1}" if len(value) > 1 else base_name   (i is 0-based)
list_hostname(output_name, value, i) ==
    IF Len(value) > 1
    THEN base_name(output_name) \o <<"-">> \o PyStr(i + 1)
    ELSE base_name(output_name)

\* for i, ip in enumerate(value): ...      st = [inv, hosts_added]
RECURSIVE ListLoop(_, _, _, _)
ListLoop(st, output_name, value, i) ==
    IF i >= Len(value) THEN st
    ELSE LET ip == value[i + 1]
         IN IF ip.t = "str" /\ is_valid_ip(ip)
            THEN ListLoop([inv |-> add_host(st.inv,
                                            list_hostname(output_name, value, i),
                                            ip.v),
                           hosts_added |-> TRUE],
                          output_name, value, i + 1)
            ELSE ListLoop(st, output_name, value, i + 1)

scalar_hostname_suffixed(output_name) == base_name(output_name) \o <<"-", "1">>

scalar_hostname(output_name) == base_name(output_name)

\* the body of `for output_name, output_data in outputs.items()`
ClassifyOutput(st, output) ==
    LET value == output.value
    IN IF value.t = "list"
       THEN ListLoop(st, output.name, value.v, 0)
       ELSE IF value.t = "str" /\ is_valid_ip(value)
            THEN [inv |-> add_host(st.inv, scalar_hostname(output.name), value.v),
                  hosts_added |-> TRUE]
            ELSE st

RECURSIVE OutputsLoop(_, _, _)
OutputsLoop(st, outs, k) ==
    IF k > Len(outs) THEN st
    ELSE OutputsLoop(ClassifyOutput(st, outs[k]), outs, k + 1)

OutputNames(outs) == [k \in 1..Len(outs) |-> outs[k].name]

Warning(outs) ==
    <<[msg |-> "Warning: No IP address outputs found in Terraform state",
       keys |-> <<>>],
      [msg |-> "Available outputs:", keys |-> OutputNames(outs)]>>

warn_never(st) == FALSE

\* if not hosts_added
warn_needed(st) == ~st.hosts_added

\* build_inventory after a successful fetch: [inv, err]
build_inventory(inv, outs) ==
    LET st == OutputsLoop([inv |-> inv, hosts_added |-> FALSE], outs, 1)
    IN [inv |-> st.inv,
        err |-> IF warn_needed(st) THEN Warning(outs) ELSE <<>>]

fetch_lenient(result) ==
    IF result.status \in {"ok", "JSONDecodeError"}
    THEN [ok |-> TRUE, outputs |-> result.outputs, err |-> <<>>]
    ELSE [ok |-> FALSE, outputs |-> <<>>,
          err |-> <<[msg |-> "Error running terraform output", keys |-> <<>>]>>]

\* get_terraform_outputs: the parsed outputs, or a diagnostic and sys.exit(1)
get_terraform_outputs(result) ==
    CASE result.status = "ok" ->
           [ok |-> TRUE, outputs |-> result.outputs, err |-> <<>>]
      [] result.status = "CalledProcessError" ->
           [ok |-> FALSE, outputs |-> <<>>,
            err |-> <<[msg |-> "Error running terraform output", keys |-> <<>>]>>]
      [] result.status = "JSONDecodeError" ->
           [ok |-> FALSE, outputs |-> <<>>,
            err |-> <<[msg |-> "Error parsing terraform output JSON", keys |-> <<>>]>>]
      [] OTHER ->
           [ok |-> FALSE, outputs |-> <<>>,
            err |-> <<[msg |-> "Error getting terraform outputs", keys |-> <<>>]>>]

\* json.dumps(self.inventory, indent=2), as the parsed document
to_json(inv) ==
    [meta |-> [hostvars |-> inv.hostvars],
     all |-> [hosts |-> inv.all_hosts, children |-> inv.children],
     aws_instances |-> [hosts |-> inv.aws_hosts]]

hostvars_get_none(hostvars, host) ==
    IF host \in DOMAIN hostvars THEN hostvars[host] ELSE Null

\* self.inventory["_meta"]["hostvars"].get(host, {})
hostvars_get(hostvars, host) ==
    IF host \in DOMAIN hostvars THEN hostvars[host] ELSE EmptyObject

(***************************************************************************)
(* Initial state: the object as constructed by main                        *)
(***************************************************************************)
Init ==
    /\ \/ \E v1 \in Slot(MaxLeaves) :
          \E v2 \in Slot(MaxLeaves - Weight(v1)) :
          \E v3 \in Slot(MaxLeaves - Weight(v1) - Weight(v2)) :
          \E reversed \in BOOLEAN :
             LET o == Declared(<<v1, v2, v3>>)
             IN tf = [status |-> "ok",
                      outputs |-> IF reversed THEN Reverse(o) ELSE o]
       \/ \E st \in FailureKinds : tf = [status |-> st, outputs |-> <<>>]
    /\ pc = "ready"
    /\ args = [op |-> "none", host |-> <<>>]
    /\ inventory = Skeleton
    /\ outputs = <<>>
    /\ stdout = <<>>
    /\ stderr = <<>>
    /\ exit_status = <<>>
    /\ fetches = 0
    /\ calls = 0
    /\ run = 1
    /\ arg = Null
    /\ ret = <<>>

(***************************************************************************)
(* Handlers                                                                *)
(***************************************************************************)
\* what the handler prints once the document is built
Printed(op, host, inv) ==
    IF op = "list" THEN to_json(inv) ELSE hostvars_get(inv.hostvars, host)

\* A handler call: self.build_inventory(), then print
Handler(op, host) ==
    LET f == get_terraform_outputs(tf)
    IN /\ pc = "ready"
       /\ args' = [op |-> op, host |-> host]
       /\ fetches' = fetches + 1
       /\ calls' = calls + 1
       /\ IF f.ok
          THEN LET b == build_inventory(inventory, f.outputs)
               IN /\ outputs' = f.outputs
                  /\ inventory' = b.inv
                  /\ stderr' = stderr \o b.err
                  /\ stdout' = Append(stdout, Printed(op, host, b.inv))
                  /\ pc' = "returned"
                  /\ exit_status' = exit_status
          ELSE /\ stderr' = stderr \o f.err
               /\ pc' = "exited"
               /\ exit_status' = <<1>>
               /\ UNCHANGED <<outputs, inventory, stdout>>
       /\ UNCHANGED <<tf, run, arg, ret>>

\* main with --list: output_list
OutputList == Handler("list", <<>>)

\* main with --host h, h non-empty: output_host
OutputHost(h) == h # <<>> /\ Handler("host", h)

\* main with --host "": args.list is False and args.host is falsy, so neither
\* branch runs and main returns
MainNoHandler ==
    /\ pc = "ready"
    /\ calls = 0
    /\ args' = [op |-> "host", host |-> <<>>]
    /\ pc' = "exited"
    /\ exit_status' = <<0>>
    /\ UNCHANGED <<tf, inventory, outputs, stdout, stderr, fetches, calls, run,
                   arg, ret>>

\* main returns after the handler: exit status 0
MainReturn ==
    /\ pc = "returned"
    /\ pc' = "exited"
    /\ exit_status' = <<0>>
    /\ UNCHANGED <<tf, args, inventory, outputs, stdout, stderr, fetches, calls,
                   run, arg, ret>>

Next ==
    \/ OutputList
    \/ \E h \in HostArgs : OutputHost(h)
    \/ MainNoHandler
    \/ MainReturn

Spec == Init /\ [][Next]_vars

(***************************************************************************)
(* One object, several handler calls (the class used as a library)         *)
(***************************************************************************)
\* the caller invokes another handler on the same TerraformInventory
CallAgain ==
    /\ pc = "returned"
    /\ calls < MaxCalls
    /\ pc' = "ready"
    /\ UNCHANGED <<tf, args, inventory, outputs, stdout, stderr, exit_status,
                   fetches, calls, run, arg, ret>>

NextLib ==
    \/ OutputList
    \/ \E h \in HostArgs : OutputHost(h)
    \/ CallAgain
    \/ MainReturn

SpecLib == Init /\ [][NextLib]_vars

(***************************************************************************)
(* Two process runs over the same terraform state: --list, then --host h   *)
(* for a hostname h of the listing                                         *)
(***************************************************************************)
\* the second process starts: main constructs a new TerraformInventory
NextRun ==
    /\ pc = "exited"
    /\ run = 1
    /\ exit_status = <<0>>
    /\ run' = 2
    /\ pc' = "ready"
    /\ args' = [op |-> "none", host |-> <<>>]
    /\ inventory' = Skeleton
    /\ outputs' = <<>>
    /\ exit_status' = <<>>
    /\ fetches' = 0
    /\ calls' = 0
    /\ UNCHANGED <<tf, stdout, stderr, arg, ret>>

ListRun == run = 1 /\ OutputList

HostRun ==
    /\ run = 2
    /\ stdout # <<>>
    /\ \E h \in Range(stdout[1].aws_instances.hosts) : OutputHost(h)

NextRT ==
    \/ ListRun
    \/ MainReturn
    \/ NextRun
    \/ HostRun

SpecRT == Init /\ [][NextRT]_vars

(***************************************************************************)
(* is_valid_ip called directly on bounded inputs                           *)
(***************************************************************************)
Tokens ==
    {<<"0">>, <<"2", "5", "5">>, <<"2", "5", "6">>, <<"a">>, <<>>,
     <<"-", "1">>, <<"+", "7">>}

RECURSIVE JoinDots(_)
JoinDots(parts) ==
    IF Len(parts) = 1 THEN parts[1]
    ELSE parts[1] \o <<".">> \o JoinDots(Tail(parts))

ExtraIpStrings ==
    {<<"9", "9", "9", ".", "1", ".", "1", ".", "1">>,
     <<"1", ".", "2", ".", "3">>,
     <<"a", "b", "c">>,
     <<" ", "1", ".", "2", ".", "3", ".", "4">>,
     <<"1", "_", "0", ".", "0", ".", "0", ".", "0">>,
     <<"1", "_", "_", "0", ".", "0", ".", "0", ".", "0">>,
     <<"1", ".", "2", ".", "3", ".", "4", " ">>,
     <<"1", ".", "2", ".", "3", ".", "+">>}

IpInputs ==
    {Null, BoolTrue, Int42, Dict, List(<<>>), List(<<Str(IP_A)>>)}
    \cup {Str(s) : s \in ExtraIpStrings}
    \cup {Str(JoinDots(p)) : p \in UNION {[1..n -> Tokens] : n \in 1..MaxParts}}

InitIp ==
    /\ arg \in IpInputs
    /\ ret = <<>>
    /\ tf = [status |-> "ok", outputs |-> <<>>]
    /\ pc = "ready"
    /\ args = [op |-> "none", host |-> <<>>]
    /\ inventory = Skeleton
    /\ outputs = <<>>
    /\ stdout = <<>>
    /\ stderr = <<>>
    /\ exit_status = <<>>
    /\ fetches = 0
    /\ calls = 0
    /\ run = 1

CallIsValidIp ==
    /\ ret = <<>>
    /\ ret' = <<is_valid_ip(arg)>>
    /\ UNCHANGED <<tf, pc, args, inventory, outputs, stdout, stderr,
                   exit_status, fetches, calls, run, arg>>

NextIp == CallIsValidIp

SpecIp == InitIp /\ [][NextIp]_vars

(***************************************************************************)
(* What the specification says of a document, stated without the loops:    *)
(* the qualifying leaves of the fetched outputs, by position               *)
(***************************************************************************)
DB_PRIMARY_IP == <<"d", "b", "_", "p", "r", "i", "m", "a", "r", "y", "_", "i", "p">>
DB_PRIMARY == <<"d", "b", "-", "p", "r", "i", "m", "a", "r", "y">>
UBUNTU_IP == <<"u", "b", "u", "n", "t", "u", "_", "i", "p">>
UBUNTU == <<"u", "b", "u", "n", "t", "u">>

\* the string has exactly three dots and every stretch between them parses
\* as an integer of 0..255
Ipv4Shaped(v) ==
    /\ v.t = "str"
    /\ LET s == v.v
           dots == {i \in 1..Len(s) : s[i] = "."}
           ends == dots \cup {Len(s) + 1}
       IN /\ Cardinality(dots) = 3
          /\ \A a \in dots \cup {0} :
                LET b == CHOOSE d \in ends :
                             d > a /\ \A e \in ends : e > a => d <= e
                    r == PyInt(SubSeq(s, a + 1, b - 1))
                IN r.ok /\ r.n \in 0..255

\* <<k, 0>>: output k is a qualifying scalar; <<k, i>>: element i (1-based)
\* of the list of output k qualifies
QualPos(outs) ==
    {<<k, 0>> : k \in {k \in 1..Len(outs) : Ipv4Shaped(outs[k].value)}}
    \cup UNION {{<<k, i>> : i \in {i \in 1..Len(outs[k].value.v) :
                                      Ipv4Shaped(outs[k].value.v[i])}}
                : k \in {k \in 1..Len(outs) : outs[k].value.t = "list"}}

QualIn(Q, k) == {p \in Q : p[1] = k}

ExpectedBase(name) ==
    CASE name = WEB_IP -> WEB
      [] name = WEB -> WEB
      [] name = WEB_2_IP -> HOST_WEB_2

Suffixed(name, i) == ExpectedBase(name) \o <<"-", Digits[i + 1]>>

\* the hostname of leaf p: suffixed with its 1-based position when the list
\* has more than one element
ExpectedName(outs, p) ==
    IF p[2] # 0 /\ Len(outs[p[1]].value.v) > 1
    THEN Suffixed(outs[p[1]].name, p[2])
    ELSE ExpectedBase(outs[p[1]].name)

AddressAt(outs, p) ==
    IF p[2] = 0 THEN outs[p[1]].value.v ELSE outs[p[1]].value.v[p[2]].v

Before(p, q) == p[1] < q[1] \/ (p[1] = q[1] /\ p[2] < q[2])

\* the j-th leaf of Q in iteration order
NthQual(Q, j) ==
    CHOOSE p \in Q : Cardinality({q \in Q : Before(q, p)}) = j - 1

Occ(h, seq) == Cardinality({j \in 1..Len(seq) : seq[j] = h})

\* a handler has fetched and built the document
Built == calls > 0 /\ tf.status = "ok" /\ pc \in {"returned", "exited"}

IsList(k) == outputs[k].value.t = "list"

(***************************************************************************)
(* C1: a scalar IPv4-shaped output emits one host entry named by the       *)
(* output name with "_ip" removed and "_" replaced by "-", without suffix, *)
(* whose ansible_host is that string.                                      *)
(***************************************************************************)
InvC1 ==
    /\ base_name(UBUNTU_IP) = UBUNTU
    /\ base_name(DB_PRIMARY_IP) = DB_PRIMARY
    /\ Built =>
         LET Q == QualPos(outputs)
         IN
         /\ \A k \in 1..Len(outputs) :
              <<k, 0>> \in Q =>
                LET h == ExpectedBase(outputs[k].name)
                IN /\ h \in Range(inventory.all_hosts)
                   /\ h \in Range(inventory.aws_hosts)
                   /\ h \in DOMAIN inventory.hostvars
                   /\ Occ(h, inventory.all_hosts) = 1 =>
                        inventory.hostvars[h].ansible_host = outputs[k].value.v
         /\ (\A k \in 1..Len(outputs) : ~IsList(k)) =>
              /\ Len(inventory.all_hosts) = Cardinality(Q)
              /\ \A j \in 1..Len(inventory.all_hosts) :
                   inventory.all_hosts[j] =
                       ExpectedBase(outputs[NthQual(Q, j)[1]].name)

WitC1 ==
    /\ pc = "exited" /\ exit_status = <<0>> /\ args.op = "list"
    /\ outputs = <<[name |-> WEB_2_IP, value |-> Str(IP_A)]>>
    /\ inventory.all_hosts = <<HOST_WEB_2>>
    /\ inventory.hostvars[HOST_WEB_2].ansible_host = IP_A

(***************************************************************************)
(* C2 as written: a list with more than one qualifying element names the   *)
(* element at position i "{base}-{i+1}"; a list with exactly one           *)
(* qualifying element, whatever its length, names it "{base}".             *)
(***************************************************************************)
CexC2 ==
    Built =>
      LET Q == QualPos(outputs)
      IN
      \A k \in 1..Len(outputs) :
        IsList(k) =>
          /\ Cardinality(QualIn(Q, k)) > 1 =>
               \A p \in QualIn(Q, k) :
                 Suffixed(outputs[k].name, p[2]) \in DOMAIN inventory.hostvars
          /\ Cardinality(QualIn(Q, k)) = 1 =>
               ExpectedBase(outputs[k].name) \in DOMAIN inventory.hostvars

(***************************************************************************)
(* C2 amended: the suffix decision depends on the length of the list: in a *)
(* list of more than one element the qualifying element at position i is   *)
(* named "{base}-{i+1}", also when it is the only qualifying one; the      *)
(* single element of a one-element list, when it qualifies, is named       *)
(* "{base}".                                                               *)
(***************************************************************************)
InvC2 ==
    Built =>
      LET Q == QualPos(outputs)
      IN
      \A k \in 1..Len(outputs) :
        IsList(k) =>
          LET value == outputs[k].value.v
          IN /\ Len(value) > 1 =>
                  \A p \in QualIn(Q, k) :
                    /\ Suffixed(outputs[k].name, p[2]) \in DOMAIN inventory.hostvars
                    /\ Suffixed(outputs[k].name, p[2]) \in Range(inventory.aws_hosts)
             /\ (Len(value) = 1 /\ QualIn(Q, k) # {}) =>
                    /\ ExpectedBase(outputs[k].name) \in DOMAIN inventory.hostvars
                    /\ ExpectedBase(outputs[k].name) \in Range(inventory.aws_hosts)
             /\ (Len(outputs) = 1 /\ Len(value) > 1) =>
                    ExpectedBase(outputs[k].name) \notin DOMAIN inventory.hostvars

WitC2 ==
    /\ Built /\ pc = "exited"
    /\ outputs = <<[name |-> WEB_IP, value |-> List(<<Str(IP_A), Str(X)>>)]>>
    /\ DOMAIN inventory.hostvars = {WEB \o <<"-", "1">>}

(***************************************************************************)
(* C3: in a list of length greater than 1 every qualifying element is      *)
(* named "{base}-{i+1}" by its position i in the original list, not by its *)
(* rank among the qualifying elements; a list yields an unsuffixed         *)
(* hostname only when it has exactly one qualifying element.               *)
(***************************************************************************)
InvC3 ==
    (Built /\ Len(outputs) = 1 /\ IsList(1)) =>
      LET value == outputs[1].value.v
          name == outputs[1].name
          Q == QualPos(outputs)
      IN /\ Len(value) > 1 =>
              /\ Len(inventory.all_hosts) = Cardinality(Q)
              /\ \A j \in 1..Len(inventory.all_hosts) :
                   /\ inventory.all_hosts[j] = Suffixed(name, NthQual(Q, j)[2])
                   /\ inventory.hostvars[inventory.all_hosts[j]].ansible_host
                        = value[NthQual(Q, j)[2]].v
         /\ ExpectedBase(name) \in Range(inventory.all_hosts) =>
              Cardinality(Q) = 1

WitC3 ==
    /\ Built
    /\ outputs = <<[name |-> WEB_IP, value |-> List(<<Str(IP_A), Str(X), Str(IP_B)>>)]>>
    /\ inventory.all_hosts = <<WEB \o <<"-", "1">>, WEB \o <<"-", "3">> >>
    /\ inventory.hostvars[WEB \o <<"-", "3">>].ansible_host = IP_B

(***************************************************************************)
(* C4: after --list, --host h for a hostname h of aws_instances.hosts      *)
(* prints a non-empty object whose ansible_host is the address the entry   *)
(* was created from, provided no two entries derived the same hostname.    *)
(***************************************************************************)
InvC4 ==
    (run = 2 /\ args.op = "host" /\ pc \in {"returned", "exited"}) =>
      /\ exit_status # <<1>>
      /\ Len(stdout) = 2
      /\ LET listed == stdout[1].aws_instances.hosts
             shown == stdout[2]
         IN /\ args.host \in Range(listed)
            /\ (\A h \in Range(listed) : Occ(h, listed) = 1) =>
                 /\ DOMAIN shown # {}
                 /\ "ansible_host" \in DOMAIN shown
                 /\ \E p \in QualPos(tf.outputs) :
                      /\ ExpectedName(tf.outputs, p) = args.host
                      /\ shown.ansible_host = AddressAt(tf.outputs, p)

WitC4 ==
    /\ run = 2 /\ pc = "exited" /\ exit_status = <<0>>
    /\ args = [op |-> "host", host |-> HOST_WEB_2]
    /\ Len(stdout) = 2
    /\ stdout[1].aws_instances.hosts = <<WEB \o <<"-", "1">>, HOST_WEB_2>>
    /\ "ansible_host" \in DOMAIN stdout[2]
    /\ stdout[2].ansible_host = IP_B

(***************************************************************************)
(* C5: when the fetch fails, the run ends with a non-zero exit status,     *)
(* nothing is printed on standard output, no document is emitted, and the  *)
(* command is invoked once (no retry).                                     *)
(***************************************************************************)
InvC5 ==
    (tf.status # "ok" /\ fetches > 0) =>
      /\ pc = "exited"
      /\ exit_status = <<1>>
      /\ stdout = <<>>
      /\ Len(stderr) = 1
      /\ inventory = Skeleton
      /\ fetches = 1

WitC5 ==
    /\ tf.status = "JSONDecodeError"
    /\ args.op = "list"
    /\ pc = "exited" /\ exit_status = <<1>> /\ stdout = <<>>

(***************************************************************************)
(* C6: when the fetch succeeds, output_host(h) prints hostvars[h] if h is  *)
(* a key of hostvars and the empty object otherwise, and the run ends with *)
(* exit status 0.                                                          *)
(***************************************************************************)
InvC6 ==
    (args.op = "host" /\ calls > 0 /\ tf.status = "ok") =>
      /\ Len(stdout) = 1
      /\ args.host \in DOMAIN inventory.hostvars =>
           stdout[1] = inventory.hostvars[args.host]
      /\ args.host \notin DOMAIN inventory.hostvars =>
           DOMAIN stdout[1] = {}
      /\ pc \in {"returned", "exited"}
      /\ pc = "exited" => exit_status = <<0>>

WitC6 ==
    /\ args = [op |-> "host", host |-> WEB]
    /\ pc = "exited" /\ exit_status = <<0>>
    /\ DOMAIN inventory.hostvars = {HOST_WEB_2}
    /\ Len(stdout) = 1 /\ DOMAIN stdout[1] = {}

(***************************************************************************)
(* C7: is_valid_ip accepts exactly the strings that split on "." into 4    *)
(* parts each parsable as an integer of 0..255, and returns false for      *)
(* every other input.                                                      *)
(***************************************************************************)
InvC7 ==
    ret # <<>> =>
      /\ ret[1] = Ipv4Shaped(arg)
      /\ arg.t # "str" => ret[1] = FALSE
      /\ arg \in {Str(<<"9", "9", "9", ".", "1", ".", "1", ".", "1">>),
                  Str(<<"1", ".", "2", ".", "3">>),
                  Str(<<"a", "b", "c">>),
                  Str(<<>>)} => ret[1] = FALSE
      /\ arg \in {Str(<<"0", ".", "0", ".", "0", ".", "0">>),
                  Str(<<"2", "5", "5", ".", "2", "5", "5", ".",
                        "2", "5", "5", ".", "2", "5", "5">>)} => ret[1] = TRUE

WitC7 ==
    /\ ret = <<TRUE>>
    /\ arg = Str(<<"2", "5", "5", ".", "2", "5", "5", ".",
                   "2", "5", "5", ".", "2", "5", "5">>)

(***************************************************************************)
(* C8: the warning is printed exactly when the build added no host entry;  *)
(* the document is then the initial skeleton and the exit status is 0;     *)
(* object, number, boolean, null and non-IP string values add no entry.    *)
(***************************************************************************)
InvC8 ==
    Built =>
      LET Q == QualPos(outputs)
      IN
      /\ (stderr # <<>>) <=> (Q = {})
      /\ (inventory.all_hosts = <<>>) <=> (Q = {})
      /\ Q = {} =>
           /\ stderr = Warning(outputs)
           /\ stderr[2].keys = [k \in 1..Len(outputs) |-> outputs[k].name]
           /\ inventory = [hostvars |-> EmptyObject, all_hosts |-> <<>>,
                           children |-> <<"aws_instances">>, aws_hosts |-> <<>>]
           /\ args.op = "list" =>
                stdout = <<[meta |-> [hostvars |-> EmptyObject],
                            all |-> [hosts |-> <<>>,
                                     children |-> <<"aws_instances">>],
                            aws_instances |-> [hosts |-> <<>>]]>>
           /\ pc = "exited" => exit_status = <<0>>
      /\ (\A k \in 1..Len(outputs) :
            outputs[k].value.t \in {"dict", "int", "bool", "null"}
            \/ outputs[k].value = Str(HELLO)) => inventory = Skeleton

WitC8 ==
    /\ pc = "exited" /\ exit_status = <<0>> /\ args.op = "list"
    /\ outputs = <<[name |-> WEB, value |-> Str(HELLO)]>>
    /\ Len(stderr) = 2
    /\ DOMAIN stdout[1].meta.hostvars = {}

(***************************************************************************)
(* C9: the document served by a call holds exactly the host entries        *)
(* classified from that call's own fetch, nothing carried over from an     *)
(* earlier call on the same object.                                        *)
(***************************************************************************)
CexC9 ==
    pc = "returned" =>
      LET Q == QualPos(outputs)
      IN /\ Len(inventory.all_hosts) = Cardinality(Q)
         /\ Len(inventory.aws_hosts) = Cardinality(Q)

(***************************************************************************)
(* C10: an entry whose hostname already exists overwrites its variable map *)
(* (last write wins, in iteration order) and is appended again to both     *)
(* host lists: the lists are identical, as long as the number of entries   *)
(* emitted, and the keys of hostvars are the distinct hostnames listed.    *)
(***************************************************************************)
InvC10 ==
    Built =>
      LET Q == QualPos(outputs)
      IN
      /\ inventory.all_hosts = inventory.aws_hosts
      /\ Len(inventory.all_hosts) = Cardinality(Q)
      /\ \A j \in 1..Len(inventory.all_hosts) :
           inventory.all_hosts[j] = ExpectedName(outputs, NthQual(Q, j))
      /\ DOMAIN inventory.hostvars = Range(inventory.all_hosts)
      /\ \A h \in DOMAIN inventory.hostvars :
           \E p \in Q :
             /\ ExpectedName(outputs, p) = h
             /\ \A q \in Q :
                  ExpectedName(outputs, q) = h => (q = p \/ Before(q, p))
             /\ inventory.hostvars[h] =
                  [ansible_host |-> AddressAt(outputs, p),
                   ansible_python_interpreter |-> "/usr/bin/python3",
                   ansible_connection |-> "ssh"]

WitC10 ==
    /\ Built /\ pc = "exited"
    /\ outputs = <<[name |-> WEB_IP, value |-> List(<<Str(IP_A), Str(IP_B)>>)],
                   [name |-> WEB_2_IP, value |-> Str(IP_A)]>>
    /\ inventory.all_hosts = <<WEB \o <<"-", "1">>, HOST_WEB_2, HOST_WEB_2>>
    /\ inventory.hostvars[HOST_WEB_2].ansible_host = IP_A

====
